---------------------------- MODULE Spec2Model ----------------------------
(***************************************************************************)
(* Model of src/index.js: the NASAAPI client.  A client holds one API key; *)
(* every endpoint method builds a URL, issues one GET through node-fetch   *)
(* and returns the decoded JSON body.  The transport (node-fetch and the   *)
(* remote hosts) is the environment: it completes each outstanding GET     *)
(* with a response or a failure, and each response body with a decoded     *)
(* value or a decoding error, in any order.                                *)
(***************************************************************************)
EXTENDS Integers, Sequences, FiniteSets, TLC

VARIABLES
    client,   \* the NASAAPI object: its own properties
    given,    \* the argument the constructor was called with
    calls,    \* the endpoint calls made so far, each with its promise's state
    net       \* the GETs handed to node-fetch so far, each with its progress

vars == <<client, given, calls, net>>

(***************************************************************************)
(* Bounds                                                                  *)
(***************************************************************************)
MaxCalls == 2

(***************************************************************************)
(* JavaScript values passed as arguments                                   *)
(***************************************************************************)
Num(n) == [t |-> "number", n |-> n, s |-> ""]
Str(s) == [t |-> "string", n |-> 0, s |-> s]
Undefined == [t |-> "undefined", n |-> 0, s |-> ""]

typeof(v) == v.t

\* `${v}` in a template literal
ToStr(v) == CASE v.t = "number" -> ToString(v.n)
              [] v.t = "string" -> v.s
              [] v.t = "undefined" -> "undefined"

(***************************************************************************)
(* Values a promise settles with                                           *)
(***************************************************************************)
NoData == [t |-> "none", id |-> 0]
Null == [t |-> "null", id |-> 0]
Obj(i) == [t |-> "object", id |-> i]

NoError == [name |-> "", message |-> ""]
VersionError == [name |-> "Error", message |-> "Version should be a float."]
IDError == [name |-> "Error", message |-> "The ID should be an integer."]
\* null.json()
NullJsonError == [name |-> "TypeError",
                  message |-> "Cannot read properties of null (reading 'json')"]

(***************************************************************************)
(* Inputs.  In == the arguments of the runs with several calls in flight;  *)
(* Wide == the arguments of the runs of one call.                          *)
(***************************************************************************)
In == [keys |-> {"DEMO_KEY"},
       startDates |-> {Str("2022-01-01")},
       endDates |-> {Str("2022-01-02")},
       dates |-> {Str("2014-02-01")},
       lons |-> {Num(100)},
       lats |-> {Str("1.5")},
       dims |-> {Undefined},
       asteroidIDs |-> {Num(3542519)},
       versions |-> {Num(1), Str("x")},
       projectIDs |-> {Num(12345), Str("x")},
       queries |-> {Str("moon")},
       nasaIDs |-> {Str("as11-40-5874")},
       paths |-> {Str("planetary/apod")}]

Values == {Num(0), Num(12345), Str("x"), Str("2022-01-01"), Undefined}

Wide == [keys |-> {"DEMO_KEY", "k", ""},
         startDates |-> Values,
         endDates |-> Values,
         dates |-> {Str("2014-02-01"), Undefined},
         lons |-> {Num(100), Str("-95.33")},
         lats |-> {Num(0), Str("1.5")},
         dims |-> {Num(0), Str("0.15"), Undefined},
         asteroidIDs |-> Values,
         versions |-> Values,
         projectIDs |-> Values,
         queries |-> Values \cup {Str("moon"), Str("")},
         nasaIDs |-> Values \cup {Str("as11-40-5874")},
         paths |-> Values \cup {Str("planetary/apod"), Str("planetary/apod?"),
                                Str("neo/rest/v1/feed?start_date=2022-01-01&")}]

\* what the transport can answer
JsonValues == {Obj(1), Obj(2)}
JsonErrors == {[name |-> "FetchError", message |-> "invalid json response body"]}
Causes == {"ECONNREFUSED"}

(***************************************************************************)
(* constructor(key)                                                        *)
(***************************************************************************)
Constructor(key) == [key |-> key]

Init ==
    /\ given \in In.keys
    /\ client = Constructor(given)
    /\ calls = <<>>
    /\ net = <<>>

(***************************************************************************)
(* The call of an async method: a new promise, and what the body does      *)
(* before its first await.                                                 *)
(***************************************************************************)
Call(entry, method, args, pc, req, error) ==
    [entry |-> entry, method |-> method, args |-> args, pc |-> pc,
     req |-> req, error |-> error, data |-> NoData]

\* fetch(url) of node-fetch: one outbound GET, pending
nodeFetch(url, c) ==
    net' = Append(net, [url |-> url, by |-> c, state |-> "pending",
                        data |-> NoData, cause |-> ""])

\* an async body that reaches `await fetch(url)`
Get(entry, method, args, url) ==
    /\ Len(calls) < MaxCalls
    /\ nodeFetch(url, Len(calls) + 1)
    /\ calls' = Append(calls, Call(entry, method, args, "awaitFetch",
                                   Len(net) + 1, NoError))
    /\ UNCHANGED <<client, given>>

\* an async body that throws before any await
Throw(entry, method, args, error) ==
    /\ Len(calls) < MaxCalls
    /\ calls' = Append(calls, Call(entry, method, args, "rejected", 0, error))
    /\ UNCHANGED <<client, given, net>>

\* NASAAPI.fetch(path), up to its first await
fetchURL(path) == "https://api.nasa.gov/" \o path \o "api_key=" \o client.key

\* variant: the method keeps the last path on the client
fetch_StoresPath(entry, method, args, path) ==
    /\ Len(calls) < MaxCalls
    /\ nodeFetch(fetchURL(path), Len(calls) + 1)
    /\ calls' = Append(calls, Call(entry, method, args, "awaitFetch",
                                   Len(net) + 1, NoError))
    /\ client' = [key |-> client.key, path |-> path]
    /\ UNCHANGED given

fetch(entry, method, args, path) == Get(entry, method, args, fetchURL(path))

(***************************************************************************)
(* Endpoint methods                                                        *)
(***************************************************************************)
apod(entry) == fetch(entry, "apod", <<>>, "planetary/apod?")

feed(entry, startDate, endDate) ==
    fetch(entry, "feed", <<startDate, endDate>>,
          "neo/rest/v1/feed?start_date=" \o ToStr(startDate)
              \o "&end_date=" \o ToStr(endDate) \o "&")

lookup(entry, asteroidID) ==
    fetch(entry, "lookup", <<asteroidID>>,
          "neo/rest/v1/neo/" \o ToStr(asteroidID) \o "?")

browse(entry) == fetch(entry, "browse", <<>>, "neo/rest/v1/neo/browse?")

imagery(entry, lon, lat, date) ==
    fetch(entry, "imagery", <<lon, lat, date>>,
          "planetary/earth/imagery?lon=" \o ToStr(lon) \o "&lat=" \o ToStr(lat)
              \o "&date=" \o ToStr(date) \o "&")

assets(entry, lon, lat, date, dim) ==
    fetch(entry, "assets", <<lon, lat, date, dim>>,
          "planetary/earth/assets?lon=" \o ToStr(lon) \o "&lat=" \o ToStr(lat)
              \o "&date=" \o ToStr(date) \o "&&dim=" \o ToStr(dim) \o "&")

\* variant: the type check is missing
insight_NoCheck(version) ==
    fetch("insight", "insight", <<version>>,
          "insight_weather/?api_key=" \o client.key
              \o "&feedtype=json&ver=" \o ToStr(version))

insight(version) ==
    IF typeof(version) # "number"
    THEN Throw("insight", "insight", <<version>>, VersionError)
    ELSE fetch("insight", "insight", <<version>>,
               "insight_weather/?api_key=" \o client.key
                   \o "&feedtype=json&ver=" \o ToStr(version))

\* variant: the search goes through this.fetch like the other endpoints
search_ViaFetch(entry, query) ==
    fetch(entry, "search", <<query>>, "search?q=" \o ToStr(query) \o "&")

search(entry, query) ==
    Get(entry, "search", <<query>>,
        "https://images-api.nasa.gov/search?q=" \o ToStr(query))

asset(entry, nasaID) ==
    Get(entry, "asset", <<nasaID>>,
        "https://images-api.nasa.gov/asset/" \o ToStr(nasaID))

metadata(entry, nasaID) ==
    Get(entry, "metadata", <<nasaID>>,
        "https://images-api.nasa.gov/metadata/" \o ToStr(nasaID))

captions(entry, nasaID) ==
    Get(entry, "captions", <<nasaID>>,
        "https://images-api.nasa.gov/captions/" \o ToStr(nasaID))

techport(ID) ==
    IF typeof(ID) # "number"
    THEN Throw("techport", "techport", <<ID>>, IDError)
    ELSE fetch("techport", "techport", <<ID>>,
               "techport/api/projects/" \o ToStr(ID) \o "?")

(***************************************************************************)
(* Namespace getters: objects of arrow functions that call the methods     *)
(***************************************************************************)
neo(member, a) ==
    CASE member = "feed" -> feed("neo.feed", a[1], a[2])
      [] member = "lookup" -> lookup("neo.lookup", a[1])
      [] member = "browse" -> browse("neo.browse")

earth(member, a) ==
    CASE member = "imagery" -> imagery("earth.imagery", a[1], a[2], a[3])
      [] member = "assets" -> assets("earth.assets", a[1], a[2], a[3], a[4])

imageAndVideo(member, a) ==
    CASE member = "search" -> search("imageAndVideo.search", a[1])
      [] member = "asset" -> asset("imageAndVideo.asset", a[1])
      [] member = "metadata" -> metadata("imageAndVideo.metadata", a[1])
      [] member = "captions" -> captions("imageAndVideo.captions", a[1])

(***************************************************************************)
(* The rest of an async body, run when the awaited promise settles.        *)
(* `const res = await fetch(url).catch(() => null);`                       *)
(* `const data = await res.json(); return data;`                           *)
(***************************************************************************)
\* the GET is answered: res is the Response, res.json() starts
FetchResolved(r) ==
    /\ r \in 1..Len(net)
    /\ net[r].state = "pending"
    /\ net' = [net EXCEPT ![r].state = "responded"]
    /\ calls' = [calls EXCEPT ![net[r].by].pc = "awaitJson"]
    /\ UNCHANGED <<client, given>>

\* variant: a failed GET is issued again
FetchRejected_Retry(r, cause) ==
    /\ r \in 1..Len(net)
    /\ net[r].state = "pending"
    /\ net' = Append([net EXCEPT ![r].state = "failed", ![r].cause = cause],
                     [net[r] EXCEPT !.state = "pending"])
    /\ calls' = [calls EXCEPT ![net[r].by].req = Len(net) + 1]
    /\ UNCHANGED <<client, given>>

\* the GET fails: the catch gives null, and null.json() throws
FetchRejected(r, cause) ==
    /\ r \in 1..Len(net)
    /\ net[r].state = "pending"
    /\ net' = [net EXCEPT ![r].state = "failed", ![r].cause = cause]
    /\ calls' = [calls EXCEPT ![net[r].by].pc = "rejected",
                              ![net[r].by].error = NullJsonError]
    /\ UNCHANGED <<client, given>>

\* variant: data is decoded and not returned
JsonResolved_NoReturn(r, data) ==
    /\ r \in 1..Len(net)
    /\ net[r].state = "responded"
    /\ net' = [net EXCEPT ![r].state = "body", ![r].data = data]
    /\ calls' = [calls EXCEPT ![net[r].by].pc = "fulfilled",
                              ![net[r].by].data = Null]
    /\ UNCHANGED <<client, given>>

\* variant: res is shared by the calls, so the body goes to the latest call
JsonResolved_SharedRes(r, data) ==
    /\ r \in 1..Len(net)
    /\ net[r].state = "responded"
    /\ calls[Len(calls)].pc = "awaitJson"
    /\ net' = [net EXCEPT ![r].state = "body", ![r].data = data]
    /\ calls' = [calls EXCEPT ![Len(calls)].pc = "fulfilled",
                              ![Len(calls)].data = data]
    /\ UNCHANGED <<client, given>>

\* the body decodes: data is returned
JsonResolved(r, data) ==
    /\ r \in 1..Len(net)
    /\ net[r].state = "responded"
    /\ net' = [net EXCEPT ![r].state = "body", ![r].data = data]
    /\ calls' = [calls EXCEPT ![net[r].by].pc = "fulfilled",
                              ![net[r].by].data = data]
    /\ UNCHANGED <<client, given>>

\* the body is not JSON: res.json() rejects and the rejection propagates
JsonRejected(r, e) ==
    /\ r \in 1..Len(net)
    /\ net[r].state = "responded"
    /\ net' = [net EXCEPT ![r].state = "badbody"]
    /\ calls' = [calls EXCEPT ![net[r].by].pc = "rejected",
                              ![net[r].by].error = e]
    /\ UNCHANGED <<client, given>>

\* a call of one endpoint, with arguments from the sets of d
Invoke(d) ==
    \/ \E path \in d.paths : fetch("fetch", "fetch", <<path>>, ToStr(path))
    \/ apod("apod")
    \/ \E s \in d.startDates, e \in d.endDates : feed("feed", s, e)
    \/ \E id \in d.asteroidIDs : lookup("lookup", id)
    \/ browse("browse")
    \/ \E lon \in d.lons, lat \in d.lats, date \in d.dates :
            imagery("imagery", lon, lat, date)
    \/ \E lon \in d.lons, lat \in d.lats, date \in d.dates, dim \in d.dims :
            assets("assets", lon, lat, date, dim)
    \/ \E v \in d.versions : insight(v)
    \/ \E q \in d.queries : search("search", q)
    \/ \E id \in d.nasaIDs : asset("asset", id)
    \/ \E id \in d.nasaIDs : metadata("metadata", id)
    \/ \E id \in d.nasaIDs : captions("captions", id)
    \/ \E id \in d.projectIDs : techport(id)
    \/ \E s \in d.startDates, e \in d.endDates : neo("feed", <<s, e>>)
    \/ \E id \in d.asteroidIDs : neo("lookup", <<id>>)
    \/ neo("browse", <<>>)
    \/ \E lon \in d.lons, lat \in d.lats, date \in d.dates :
            earth("imagery", <<lon, lat, date>>)
    \/ \E lon \in d.lons, lat \in d.lats, date \in d.dates, dim \in d.dims :
            earth("assets", <<lon, lat, date, dim>>)
    \/ \E q \in d.queries : imageAndVideo("search", <<q>>)
    \/ \E m \in {"asset", "metadata", "captions"}, id \in d.nasaIDs :
            imageAndVideo(m, <<id>>)

\* node-fetch settles one of the promises it gave out
Transport ==
    \/ \E r \in 1..Len(net) : FetchResolved(r)
    \/ \E r \in 1..Len(net), cause \in Causes : FetchRejected(r, cause)
    \/ \E r \in 1..Len(net), data \in JsonValues : JsonResolved(r, data)
    \/ \E r \in 1..Len(net), e \in JsonErrors : JsonRejected(r, e)

\* up to MaxCalls calls on one client, in flight together
Next == Invoke(In) \/ Transport

Spec == Init /\ [][Next]_vars

\* one call on a fresh client, over the wide argument sets
InitOne ==
    /\ given \in Wide.keys
    /\ client = Constructor(given)
    /\ calls = <<>>
    /\ net = <<>>

NextOne == (calls = <<>> /\ Invoke(Wide)) \/ Transport

SpecOne == InitOne /\ [][NextOne]_vars

(***************************************************************************)
(* Vocabulary of the properties                                            *)
(***************************************************************************)
StartsWith(s, p) == Len(s) >= Len(p) /\ SubSeq(s, 1, Len(p)) = p
EndsWith(s, p) == Len(s) >= Len(p) /\ SubSeq(s, Len(s) - Len(p) + 1, Len(s)) = p
Occurrences(s, p) ==
    Cardinality({i \in 1..(Len(s) - Len(p) + 1) : SubSeq(s, i, i + Len(p) - 1) = p})

ApiHost == "https://api.nasa.gov/"
ImageHost == "https://images-api.nasa.gov/"
ImageMethods == {"search", "asset", "metadata", "captions"}
ApiMethods == {"apod", "feed", "lookup", "browse", "imagery", "assets",
               "insight", "techport"}
Validated == {"insight", "techport"}
Settled == {"fulfilled", "rejected"}
Arrived == {"failed", "body", "badbody"}

CallIds == 1..Len(calls)
ReqIds == 1..Len(net)
RequestsOf(i) == {r \in ReqIds : net[r].by = i}
PassesValidation(c) == c.method \in Validated => typeof(c.args[1]) = "number"

(***************************************************************************)
(* C1: a call of insight or techport with an argument that is not a number *)
(* is rejected with the method's validation error and issues no request;   *)
(* with a number it issues its request.                                    *)
(***************************************************************************)
C1_ValidationBeforeRequest ==
    \A i \in CallIds :
        LET c == calls[i] IN
        c.method \in Validated =>
            IF typeof(c.args[1]) # "number"
            THEN /\ c.pc = "rejected"
                 /\ c.error = (IF c.method = "insight" THEN VersionError ELSE IDError)
                 /\ c.req = 0
                 /\ RequestsOf(i) = {}
            ELSE /\ c.req \in ReqIds
                 /\ RequestsOf(i) = {c.req}

C1_Witness ==
    /\ Len(calls) = 1
    /\ calls[1].method = "techport"
    /\ calls[1].args = <<Undefined>>
    /\ calls[1].pc = "rejected"
    /\ calls[1].error = IDError
    /\ net = <<>>

(***************************************************************************)
(* C2: when the transport of a call fails, the call is rejected with a     *)
(* NetworkError, not with the exception of decoding a null response.       *)
(***************************************************************************)
C2_TransportFailureIsNetworkError ==
    \A r \in ReqIds :
        net[r].state = "failed" =>
            /\ calls[net[r].by].pc = "rejected"
            /\ calls[net[r].by].error.name = "NetworkError"
            /\ calls[net[r].by].error # NullJsonError

(***************************************************************************)
(* C3: every URL requested from the general API host is the base host, the *)
(* endpoint's path and query, then the key as the trailing query           *)
(* parameter: 'api_key=<key>' occurs exactly once, ends the URL, and       *)
(* follows a '?' or a '&'.                                                 *)
(***************************************************************************)
C3_KeyIsTrailingParameter ==
    \A r \in ReqIds :
        LET u == net[r].url
            k == "api_key=" \o client.key
        IN  calls[net[r].by].method \in ApiMethods =>
                /\ StartsWith(u, ApiHost)
                /\ Occurrences(u, "api_key=") = 1
                /\ EndsWith(u, k)
                /\ \/ EndsWith(u, "?" \o k)
                   \/ EndsWith(u, "&" \o k)

(***************************************************************************)
(* C4: every request of search, asset, metadata and captions goes to the   *)
(* image and video host and carries no API key parameter; no request of    *)
(* another method goes to that host.                                       *)
(***************************************************************************)
C4_ImageHostWithoutKey ==
    \A r \in ReqIds :
        LET u == net[r].url IN
        IF calls[net[r].by].method \in ImageMethods
        THEN /\ StartsWith(u, ImageHost)
             /\ Occurrences(u, "api_key") = 0
        ELSE ~StartsWith(u, ImageHost)

C4_Witness ==
    /\ client.key = "DEMO_KEY"
    /\ Len(calls) = 1
    /\ calls[1].entry = "imageAndVideo.search"
    /\ Len(net) = 1
    /\ net[1].url = "https://images-api.nasa.gov/search?q=moon"

(***************************************************************************)
(* C5: a call whose arguments pass validation issues exactly one GET, and  *)
(* its promise is settled only once that GET's response or failure has     *)
(* arrived.                                                                *)
(***************************************************************************)
C5_OneGetPerCall ==
    \A i \in CallIds :
        LET c == calls[i] IN
        PassesValidation(c) =>
            /\ Cardinality(RequestsOf(i)) = 1
            /\ c.req \in RequestsOf(i)
            /\ c.pc \in Settled => net[c.req].state \in Arrived

C5_Witness ==
    /\ Len(calls) = 2
    /\ calls[1].pc = "rejected"
    /\ calls[1].req \in ReqIds
    /\ net[calls[1].req].state = "failed"
    /\ calls[2].method = "asset"
    /\ calls[2].pc = "awaitJson"
    /\ Len(net) = 2

(***************************************************************************)
(* C6: when the transport answers every request with the same JSON object, *)
(* every call whose answer has arrived is fulfilled with exactly that      *)
(* object.                                                                 *)
(***************************************************************************)
C6_RoundTrip ==
    \A j \in JsonValues :
        (\A r \in ReqIds : /\ net[r].state \notin {"failed", "badbody"}
                           /\ net[r].state = "body" => net[r].data = j)
        => \A i \in CallIds :
               (calls[i].req # 0 /\ net[calls[i].req].state = "body") =>
                   /\ calls[i].pc = "fulfilled"
                   /\ calls[i].data = j

C6_Witness ==
    /\ Len(calls) = 2
    /\ calls[1].entry = "neo.feed"
    /\ calls[2].entry = "captions"
    /\ \A i \in {1, 2} : calls[i].pc = "fulfilled" /\ calls[i].data = Obj(2)
    /\ \A r \in ReqIds : net[r].state = "body" /\ net[r].data = Obj(2)

(***************************************************************************)
(* C7: when the response arrives but its body is not JSON, the call is     *)
(* rejected with an error of kind DecodeError, which differs from the      *)
(* outcome of a transport failure; it is never fulfilled.                  *)
(***************************************************************************)
C7_BadBodyIsDecodeError ==
    \A r \in ReqIds :
        net[r].state = "badbody" =>
            /\ calls[net[r].by].pc = "rejected"
            /\ calls[net[r].by].error.name = "DecodeError"
            /\ calls[net[r].by].error # NullJsonError
            /\ calls[net[r].by].data = NoData

(***************************************************************************)
(* C8: the path and query requested by a method with parameters is the     *)
(* template of the method table, each argument in its named position and   *)
(* the parameters separated by one '&'.                                    *)
(***************************************************************************)
C8_Template(m, a) ==
    CASE m = "feed" -> "neo/rest/v1/feed?start_date=" \o ToStr(a[1])
                           \o "&end_date=" \o ToStr(a[2])
      [] m = "lookup" -> "neo/rest/v1/neo/" \o ToStr(a[1])
      [] m = "imagery" -> "planetary/earth/imagery?lon=" \o ToStr(a[1])
                              \o "&lat=" \o ToStr(a[2]) \o "&date=" \o ToStr(a[3])
      [] m = "assets" -> "planetary/earth/assets?lon=" \o ToStr(a[1])
                             \o "&lat=" \o ToStr(a[2]) \o "&date=" \o ToStr(a[3])
                             \o "&dim=" \o ToStr(a[4])
      [] m = "insight" -> "insight_weather/?feedtype=json&ver=" \o ToStr(a[1])
      [] m = "search" -> "search?q=" \o ToStr(a[1])
      [] m = "asset" -> "asset/" \o ToStr(a[1])
      [] m = "metadata" -> "metadata/" \o ToStr(a[1])
      [] m = "captions" -> "captions/" \o ToStr(a[1])
      [] m = "techport" -> "techport/api/projects/" \o ToStr(a[1])

C8_PathMatchesTemplate ==
    \A r \in ReqIds :
        LET c == calls[net[r].by]
            t == C8_Template(c.method, c.args)
        IN  (c.method \in ApiMethods \cup ImageMethods /\ c.args # <<>>) =>
                IF c.method \in ImageMethods
                THEN net[r].url = ImageHost \o t
                ELSE \E sep \in {"?", "&"} :
                        net[r].url = ApiHost \o t \o sep \o "api_key=" \o client.key

(***************************************************************************)
(* C9: whatever calls were made and however they ended, the client holds   *)
(* the key the constructor was given, and nothing else.                    *)
(***************************************************************************)
C9_KeyImmutable == client = [key |-> given]

C9_Witness ==
    /\ Len(calls) = 2
    /\ calls[1].pc = "rejected" /\ calls[1].req = 0
    /\ calls[2].entry = "earth.imagery"
    /\ calls[2].pc = "rejected" /\ net[calls[2].req].state = "badbody"
    /\ client.key = given

(***************************************************************************)
(* C10: with several calls in flight and the answers arriving in any       *)
(* order, each call's outcome is that of its own request: pending while it *)
(* is pending, fulfilled with the body decoded from its own response,      *)
(* rejected by its own failure.                                            *)
(***************************************************************************)
C10_OwnOutcome ==
    \A i \in CallIds :
        LET c == calls[i] IN
        IF c.req = 0
        THEN c.pc = "rejected" /\ c.error \in {VersionError, IDError}
        ELSE LET q == net[c.req] IN
             /\ q.by = i
             /\ q.state = "pending" => c.pc = "awaitFetch"
             /\ q.state = "responded" => c.pc = "awaitJson"
             /\ q.state = "failed" => c.pc = "rejected" /\ c.error = NullJsonError
             /\ q.state = "badbody" => c.pc = "rejected" /\ c.error \in JsonErrors
             /\ q.state = "body" => c.pc = "fulfilled" /\ c.data = q.data

C10_Witness ==
    /\ Len(calls) = 2
    /\ calls[1].method = "search"
    /\ calls[1].pc = "awaitJson"
    /\ calls[2].pc = "fulfilled"
    /\ calls[2].data = Obj(1)
    /\ calls[2].req \in ReqIds
    /\ net[calls[2].req].data = Obj(1)

=============================================================================
